---------------------------- MODULE Spec2Model ----------------------------
(***************************************************************************)
(* Model of mpmp7_unique_distances.py: the brute-force search for          *)
(* arrangements of counters on a grid whose pairwise distances are all     *)
(* different, deduplicated under the rotations and reflections of the      *)
(* grid.                                                                   *)
(*                                                                         *)
(* Points are tuples of 0-based coordinates; since TLA+ sequences are      *)
(* 1-based, coordinate i of the source is p[i+1] here.  Permutations are   *)
(* tuples of 0-based axis numbers, as itertools.permutations(range(dim))   *)
(* yields them.                                                            *)
(***************************************************************************)
EXTENDS Integers, Sequences, FiniteSets, TLC

VARIABLES
    size,        \* Size(dimension, width): [dim, width]
    ncounters,   \* args.counters
    pc,          \* position of the program
    gen,         \* state of the combinations() generator of solvegrid
    pieces,      \* solvegrid: the candidate of the last loop iteration
    solutions,   \* solvegrid: the list of accepted arrangements
    total,       \* numpositions: running total
    choices,     \* numpositions: remaining choices
    i,           \* numpositions: loop counter (iterations done)
    a,           \* argument `a` / `pieces` of a call of one function
    b,           \* argument `b` of istransformof
    flip,        \* argument `flip` of rotatearragement
    perm,        \* argument `perm` of rotatearragement
    p,           \* argument `p` of distance_squared
    q,           \* argument `q` of distance_squared
    ret          \* return value of the called function

vars == <<size, ncounters, pc, gen, pieces, solutions, total, choices, i,
          a, b, flip, perm, p, q, ret>>

-----------------------------------------------------------------------------
(* Bounds of the model *)

MaxDim == 3
MaxWidth == 3
MaxCounters == 3
MaxPoints == 9

-----------------------------------------------------------------------------
(* Python values *)

\* Python values are tagged with their type, so that a bool, an int, a set
\* and None can be told apart.  None is what a function returns when it
\* falls off its end.
None == [type |-> "NoneType"]
PyBool(x) == [type |-> "bool", val |-> x]
PyInt(x) == [type |-> "int", val |-> x]
PySet(x) == [type |-> "set", val |-> x]
True == PyBool(TRUE)
False == PyBool(FALSE)

\* The value standing for "no call has returned yet".
NoValue == [type |-> "pending"]

\* Python's truth value of a bool or None.
truthy(v) == IF v.type = "bool" THEN v.val ELSE FALSE

\* Python's int ** int for a non-negative exponent (0 ** 0 = 1).
RECURSIVE Pow(_, _)
Pow(x, n) == IF n <= 0 THEN 1 ELSE x * Pow(x, n - 1)

Min(x, y) == IF x <= y THEN x ELSE y

\* Iteration order of a Python set: some fixed order of its elements.
RECURSIVE SetToSeq(_)
SetToSeq(S) ==
    IF S = {} THEN <<>>
    ELSE LET x == CHOOSE y \in S : TRUE
         IN  <<x>> \o SetToSeq(S \ {x})

\* zip(p, q): stops at the end of the shorter sequence.
zip(s, t) == [k \in 1..Min(Len(s), Len(t)) |-> <<s[k], t[k]>>]

RECURSIVE sum(_)
sum(s) == IF s = <<>> THEN 0 ELSE Head(s) + sum(Tail(s))

-----------------------------------------------------------------------------
(* Grid geometry *)

Size(dimension, width) == [dim |-> dimension, width |-> width]

distance_squared(pp, qq) ==
    sum([k \in DOMAIN zip(pp, qq) |->
            (zip(pp, qq)[k][1] - zip(pp, qq)[k][2]) * (zip(pp, qq)[k][1] - zip(pp, qq)[k][2])])

\* itertools.product of `d` copies of range(w), in its order: last axis fastest.
RECURSIVE product(_, _)
product(w, d) ==
    IF d <= 0 THEN << <<>> >>
    ELSE LET prev == product(w, d - 1)
         IN  [k \in 1..(Len(prev) * (IF w > 0 THEN w ELSE 0)) |->
                 Append(prev[((k - 1) \div w) + 1], (k - 1) % w)]

generatepoints(sz) == product(sz.width, sz.dim)

-----------------------------------------------------------------------------
(* itertools.combinations as a generator: `indices` are 0-based positions   *)
(* in the pool; state "fresh" is before the first next().                  *)

combinations_init == [state |-> "fresh", indices |-> <<>>]

\* The rightmost position whose index can still be raised, or -1.
combinations_pivot(n, r, indices) ==
    LET ok == {k \in 0..(r - 1) : indices[k + 1] # k + n - r}
    IN  IF ok = {} THEN -1 ELSE CHOOSE k \in ok : \A m \in ok : m <= k

\* One next() on the generator over a pool of n items taken r at a time.
combinations_next(n, r, g) ==
    IF g.state = "done" THEN g
    ELSE IF g.state = "fresh"
    THEN IF r > n THEN [state |-> "done", indices |-> <<>>]
         ELSE [state |-> "yield", indices |-> [k \in 1..r |-> k - 1]]
    ELSE LET piv == combinations_pivot(n, r, g.indices)
         IN  IF piv = -1 THEN [state |-> "done", indices |-> <<>>]
             ELSE [state |-> "yield",
                   indices |-> [k \in 1..r |->
                       IF k - 1 < piv THEN g.indices[k]
                       ELSE g.indices[piv + 1] + 1 + (k - 1 - piv)]]

\* The tuple the generator yields in state g.
combinations_value(pool, g) == [k \in 1..Len(g.indices) |-> pool[g.indices[k] + 1]]

\* All r-combinations of the positions of a sequence, in generator order.
RECURSIVE combinations_all(_, _, _)
combinations_all(n, r, g) ==
    LET g2 == combinations_next(n, r, g)
    IN  IF g2.state = "done" THEN <<>>
        ELSE <<g2.indices>> \o combinations_all(n, r, g2)

combinations(pool, r) ==
    LET idx == combinations_all(Len(pool), r, combinations_init)
    IN  [k \in 1..Len(idx) |-> [m \in 1..r |-> pool[idx[k][m] + 1]]]

generatearrangements(sz, n) == combinations(generatepoints(sz), n)

-----------------------------------------------------------------------------
(* Uniqueness filter *)

\* The loop with `distances.add(d)` left out.
RECURSIVE hasuniquedistance_loop_noadd(_, _)
hasuniquedistance_loop_noadd(pairs, distances) ==
    IF pairs = <<>> THEN TRUE
    ELSE LET d == distance_squared(Head(pairs)[1], Head(pairs)[2])
         IN  IF d \in distances THEN FALSE
             ELSE hasuniquedistance_loop_noadd(Tail(pairs), distances)

\* The loop of hasuniquedistance over the remaining pairs, with the set of
\* distances seen so far.
RECURSIVE hasuniquedistance_loop(_, _)
hasuniquedistance_loop(pairs, distances) ==
    IF pairs = <<>> THEN TRUE
    ELSE LET d == distance_squared(Head(pairs)[1], Head(pairs)[2])
         IN  IF d \in distances THEN FALSE
             ELSE hasuniquedistance_loop(Tail(pairs), distances \cup {d})

hasuniquedistance(pcs) ==
    hasuniquedistance_loop(combinations(SetToSeq(pcs), 2), {})

-----------------------------------------------------------------------------
(* Symmetry reducer *)

\* bitgen with `num >>= 1` left out: every value is the lowest bit.
bitgen_noshift(num, k) == num % 2

\* The k-th value (k = 0, 1, ...) that bitgen(num) yields.
bitgen(num, k) == (num \div Pow(2, k)) % 2

\* doflip reflecting about `width` instead of `width-1`.
doflip_offbyone(sz, x, bit) == IF bit = 1 THEN sz.width - x ELSE x

doflip(sz, x, bit) == IF bit = 1 THEN sz.width - 1 - x ELSE x

rotatepoint(sz, fl, pm, pt) ==
    [k \in 1..Len(pm) |-> doflip(sz, pt[pm[k] + 1], bitgen(fl, k - 1))]

rotatearragement(sz, fl, pm, arr) ==
    {rotatepoint(sz, fl, pm, pt) : pt \in arr}

\* itertools.permutations(range(d)) in its (lexicographic) order.
RECURSIVE permutations_of(_)
permutations_of(items) ==
    IF items = <<>> THEN << <<>> >>
    ELSE LET rest(k) == [m \in 1..(Len(items) - 1) |->
                            IF m < k THEN items[m] ELSE items[m + 1]]
             RECURSIVE from(_)
             from(k) == IF k > Len(items) THEN <<>>
                        ELSE LET sub == permutations_of(rest(k))
                             IN  [m \in 1..Len(sub) |-> <<items[k]>> \o sub[m]]
                                 \o from(k + 1)
         IN  from(1)

\* The coordinates are never permuted: only the identity is tried.
permutations_identity(d) == << [k \in 1..d |-> k - 1] >>

permutations(d) == permutations_of([k \in 1..d |-> k - 1])

\* The (flip, perm) pairs in the order the nested loops visit them.
transforms(sz) ==
    LET perms == permutations(sz.dim)
        np == Len(perms)
    IN  [k \in 1..(Pow(2, sz.dim) * np) |->
            [flip |-> (k - 1) \div np, perm |-> perms[((k - 1) % np) + 1]]]

RECURSIVE istransformof_loop(_, _, _, _)
istransformof_loop(sz, ts, aa, bb) ==
    IF ts = <<>> THEN None
    ELSE IF rotatearragement(sz, Head(ts).flip, Head(ts).perm, aa) = bb THEN True
    ELSE istransformof_loop(sz, Tail(ts), aa, bb)

istransformof(sz, aa, bb) == istransformof_loop(sz, transforms(sz), aa, bb)

\* containstransform with `return False` inside the loop: only the first
\* solution is compared.
containstransform_firstonly(sz, sols, aa) ==
    IF sols = <<>> THEN FALSE
    ELSE truthy(istransformof(sz, aa, Head(sols)))

RECURSIVE containstransform(_, _, _)
containstransform(sz, sols, aa) ==
    IF sols = <<>> THEN FALSE
    ELSE IF truthy(istransformof(sz, aa, Head(sols))) THEN TRUE
    ELSE containstransform(sz, Tail(sols), aa)

-----------------------------------------------------------------------------
(* solvegrid and main *)

\* The loop body without the containstransform test.
solvegrid_body_nodedup(sz, sols, pcs) ==
    IF hasuniquedistance(pcs) THEN Append(sols, pcs) ELSE sols

\* The loop body inserting at the front of the list.
solvegrid_body_prepend(sz, sols, pcs) ==
    IF hasuniquedistance(pcs)
    THEN IF ~containstransform(sz, sols, pcs) THEN <<pcs>> \o sols ELSE sols
    ELSE sols

\* The body of solvegrid's loop for one candidate: the new solutions list.
solvegrid_body(sz, sols, pcs) ==
    IF hasuniquedistance(pcs)
    THEN IF ~containstransform(sz, sols, pcs) THEN Append(sols, pcs) ELSE sols
    ELSE sols

\* The round dividing before it multiplies.
numpositions_step_divfirst(tot, ch, k) == (tot \div (k + 1)) * ch

\* One multiply/divide round of numpositions.
numpositions_step(tot, ch, k) == (tot * ch) \div (k + 1)

NumPoints(sz) == Pow(sz.width, sz.dim)

\* The grids of the model.
Grids == {sz \in {Size(d, w) : d \in 1..MaxDim, w \in 1..MaxWidth} :
            NumPoints(sz) <= MaxPoints}

Range(s) == {s[k] : k \in DOMAIN s}

NoCall == /\ a = {} /\ b = {} /\ flip = 0 /\ perm = <<>>
          /\ p = <<>> /\ q = <<>> /\ ret = NoValue

NoCount == total = 0 /\ choices = 0 /\ i = 0

Init ==
    /\ size \in Grids
    /\ ncounters \in 1..MaxCounters
    /\ ncounters <= NumPoints(size)
    /\ pc = "solve"
    /\ gen = combinations_init
    /\ pieces = {}
    /\ solutions = <<>>
    /\ NoCount
    /\ NoCall

\* One iteration of the for loop of solvegrid.
SolveStep ==
    /\ pc = "solve"
    /\ LET g == combinations_next(NumPoints(size), ncounters, gen)
       IN  /\ g.state = "yield"
           /\ gen' = g
           /\ pieces' = Range(combinations_value(generatepoints(size), g))
           /\ solutions' = solvegrid_body(size, solutions, pieces')
    /\ UNCHANGED <<size, ncounters, pc, total, choices, i, a, b, flip, perm, p, q, ret>>

\* The generator is exhausted: solvegrid returns its list to main.
SolveReturn ==
    /\ pc = "solve"
    /\ LET g == combinations_next(NumPoints(size), ncounters, gen)
       IN  /\ g.state = "done"
           /\ gen' = g
    /\ pc' = "solved"
    /\ UNCHANGED <<size, ncounters, pieces, solutions, total, choices, i,
                   a, b, flip, perm, p, q, ret>>

\* main calls numpositions: its first two statements.
CountEnter ==
    /\ pc = "solved"
    /\ total' = 1
    /\ choices' = Pow(size.width, size.dim)
    /\ i' = 0
    /\ pc' = "count"
    /\ UNCHANGED <<size, ncounters, gen, pieces, solutions, a, b, flip, perm, p, q, ret>>

\* One iteration of the for loop of numpositions.
CountStep ==
    /\ pc = "count"
    /\ i < ncounters
    /\ total' = numpositions_step(total, choices, i)
    /\ choices' = choices - 1
    /\ i' = i + 1
    /\ UNCHANGED <<size, ncounters, pc, gen, pieces, solutions, a, b, flip, perm, p, q, ret>>

\* numpositions returns `total`; main prints and ends.
CountReturn ==
    /\ pc = "count"
    /\ i >= ncounters
    /\ pc' = "done"
    /\ UNCHANGED <<size, ncounters, gen, pieces, solutions, total, choices, i,
                   a, b, flip, perm, p, q, ret>>

Next == SolveStep \/ SolveReturn \/ CountEnter \/ CountStep \/ CountReturn

Spec == Init /\ [][Next]_vars

-----------------------------------------------------------------------------
(* Calls of single functions, with the arguments drawn in the initial state *)

GridPoints(sz) == Range(generatepoints(sz))

\* Arrangements of at most n counters on the grid.
Arrangements(sz, n) == {s \in SUBSET GridPoints(sz) : Cardinality(s) <= n}

\* The axis permutations and reflection bitmasks of a d-dimensional grid.
AxisPerms(d) == {f \in [1..d -> 0..(d - 1)] : \A j, k \in 1..d : f[j] = f[k] => j = k}
FlipMasks(d) == 0..(Pow(2, d) - 1)

NoSolve == /\ ncounters = 0 /\ gen = combinations_init /\ pieces = {}
           /\ solutions = <<>> /\ NoCount

InitFilter ==
    /\ size \in Grids
    /\ a \in Arrangements(size, MaxCounters)
    /\ b = {} /\ flip = 0 /\ perm = <<>> /\ p = <<>> /\ q = <<>>
    /\ ret = NoValue
    /\ pc = "call_hasuniquedistance"
    /\ NoSolve

CallHasUniqueDistance ==
    /\ pc = "call_hasuniquedistance"
    /\ ret' = PyBool(hasuniquedistance(a))
    /\ pc' = "returned"
    /\ UNCHANGED <<size, ncounters, gen, pieces, solutions, total, choices, i,
                   a, b, flip, perm, p, q>>

NextFilter == CallHasUniqueDistance

SpecFilter == InitFilter /\ [][NextFilter]_vars

InitRotate ==
    /\ size \in Grids
    /\ a \in Arrangements(size, MaxCounters)
    /\ flip \in FlipMasks(size.dim)
    /\ perm \in AxisPerms(size.dim)
    /\ b = {} /\ p = <<>> /\ q = <<>>
    /\ ret = NoValue
    /\ pc = "call_rotatearragement"
    /\ NoSolve

CallRotateArrangement ==
    /\ pc = "call_rotatearragement"
    /\ ret' = PySet(rotatearragement(size, flip, perm, a))
    /\ pc' = "returned"
    /\ UNCHANGED <<size, ncounters, gen, pieces, solutions, total, choices, i,
                   a, b, flip, perm, p, q>>

NextRotate == CallRotateArrangement

SpecRotate == InitRotate /\ [][NextRotate]_vars

InitTransform ==
    /\ size \in Grids
    /\ a \in Arrangements(size, MaxCounters)
    /\ b \in Arrangements(size, MaxCounters)
    /\ flip = 0 /\ perm = <<>> /\ p = <<>> /\ q = <<>>
    /\ ret = NoValue
    /\ pc = "call_istransformof"
    /\ NoSolve

CallIsTransformOf ==
    /\ pc = "call_istransformof"
    /\ ret' = istransformof(size, a, b)
    /\ pc' = "returned"
    /\ UNCHANGED <<size, ncounters, gen, pieces, solutions, total, choices, i,
                   a, b, flip, perm, p, q>>

NextTransform == CallIsTransformOf

SpecTransform == InitTransform /\ [][NextTransform]_vars

-----------------------------------------------------------------------------
(* Calls that violate the preconditions *)

\* dimension/width not positive, or more counters than grid points.
Invalid(sz, n) == sz.dim <= 0 \/ sz.width <= 0 \/ n > NumPoints(sz)

\* Tuples of up to MaxDim coordinates.
Tuples == UNION {[1..d -> 0..(MaxWidth - 1)] : d \in 0..MaxDim}

InitErrSolve ==
    /\ size \in {Size(d, w) : d \in 0..MaxDim, w \in 0..MaxWidth}
    /\ NumPoints(size) <= MaxPoints
    /\ ncounters \in 1..(MaxCounters + 1)
    /\ Invalid(size, ncounters)
    /\ pc = "solve"
    /\ gen = combinations_init
    /\ pieces = {}
    /\ solutions = <<>>
    /\ NoCount
    /\ NoCall

InitErrDistance ==
    /\ size = Size(1, 1)
    /\ p \in Tuples
    /\ q \in Tuples
    /\ Len(p) # Len(q)
    /\ a = {} /\ b = {} /\ flip = 0 /\ perm = <<>>
    /\ ret = NoValue
    /\ pc = "call_distance_squared"
    /\ NoSolve

InitErr == InitErrSolve \/ InitErrDistance

CallDistanceSquared ==
    /\ pc = "call_distance_squared"
    /\ ret' = PyInt(distance_squared(p, q))
    /\ pc' = "returned"
    /\ UNCHANGED <<size, ncounters, gen, pieces, solutions, total, choices, i,
                   a, b, flip, perm, p, q>>

NextErr == SolveStep \/ SolveReturn \/ CountEnter \/ CountStep \/ CountReturn
           \/ CallDistanceSquared

SpecErr == InitErr /\ [][NextErr]_vars

-----------------------------------------------------------------------------
(* Notions the properties are stated in *)

\* s2 is the image of s1 under some reflection/axis-permutation of the grid.
SymEquiv(sz, s1, s2) ==
    \E fl \in FlipMasks(sz.dim), pm \in AxisPerms(sz.dim) :
        rotatearragement(sz, fl, pm, s1) = s2

\* The unordered pairs of points of an arrangement.
Pairs(s) == {pr \in SUBSET s : Cardinality(pr) = 2}

PairDistance(pr) ==
    LET x == CHOOSE y \in pr : TRUE
        z == CHOOSE y \in pr : y # x
    IN  distance_squared(x, z)

\* No two different unordered pairs of points are the same distance apart.
UniqueDistances(s) ==
    \A pr1, pr2 \in Pairs(s) : pr1 # pr2 => PairDistance(pr1) # PairDistance(pr2)

\* The binomial coefficient, by Pascal's rule.
RECURSIVE Binomial(_, _)
Binomial(n, k) ==
    IF k = 0 THEN 1
    ELSE IF n = 0 THEN 0
    ELSE Binomial(n - 1, k - 1) + Binomial(n - 1, k)

\* The candidates solvegrid has to look at: all sets of ncounters grid points.
Candidates == {s \in SUBSET GridPoints(size) : Cardinality(s) = ncounters}

SolveFinished == pc \in {"solved", "count", "done"}

-----------------------------------------------------------------------------
(* Properties of solvegrid and numpositions, under Spec *)

\* C1: at every point of solvegrid's run, no two entries of the solution
\* list are images of one another under a symmetry of the grid.
C1_NoEquivalentSolutions ==
    \A j, k \in 1..Len(solutions) :
        j # k => ~SymEquiv(size, solutions[j], solutions[k])

C1_Witness ==
    /\ pc = "solve"
    /\ Len(solutions) >= 3
    /\ UniqueDistances(pieces)
    /\ pieces \notin Range(solutions)

\* C2: when solvegrid has finished, every arrangement of ncounters grid
\* points with pairwise different distances has exactly one entry of the
\* solution list that is a transform of it.
C2_OrbitOnce ==
    SolveFinished =>
        \A s \in Candidates :
            UniqueDistances(s) =>
                Cardinality({k \in 1..Len(solutions) :
                                SymEquiv(size, s, solutions[k])}) = 1

C2_Witness ==
    /\ SolveFinished
    /\ Len(solutions) >= 3
    /\ \E s \in Candidates :
          /\ UniqueDistances(s)
          /\ s \notin Range(solutions)
          /\ \E k \in 1..Len(solutions) : k > 1 /\ SymEquiv(size, s, solutions[k])

\* C3: for dimension 2, width 3 and 3 counters the run ends with exactly 5
\* solutions and numpositions reports 84 arrangements.
C3_ThreeByThree ==
    (pc = "done" /\ size = Size(2, 3) /\ ncounters = 3)
        => (Len(solutions) = 5 /\ total = 84)

C3_Witness ==
    /\ pc = "done" /\ size = Size(2, 3) /\ ncounters = 3
    /\ Len(solutions) = 5 /\ total = 84

\* C6: in numpositions, after each iteration the running total is the
\* binomial coefficient of the number of grid points over the number of
\* iterations done, so the value returned is C(width^dim, ncounters).
C6_Binomial ==
    /\ pc = "count" => total = Binomial(Pow(size.width, size.dim), i)
    /\ pc = "done" => total = Binomial(Pow(size.width, size.dim), ncounters)

C6_Witness ==
    /\ pc = "count" /\ i = 3 /\ ncounters = 3
    /\ total = 84 /\ total = Binomial(9, 3)

\* C9: the solution list starts empty; a step that processes a candidate
\* appends exactly that candidate at the end when it has unique distances
\* and is no transform of an entry of the list as it stands, and leaves
\* the list alone otherwise; no other step changes the list.
C9_AppendOnly ==
    /\ solutions = <<>>
    /\ [][IF pc = "solve" /\ gen' # gen /\ gen'.state = "yield"
          THEN LET c == Range(combinations_value(generatepoints(size), gen'))
               IN  /\ Cardinality(c) = ncounters
                   /\ IF /\ UniqueDistances(c)
                         /\ ~\E k \in 1..Len(solutions) : SymEquiv(size, c, solutions[k])
                      THEN solutions' = Append(solutions, c)
                      ELSE solutions' = solutions
          ELSE solutions' = solutions]_vars

C9_Witness ==
    /\ pc = "solve" /\ gen.state = "yield"
    /\ Len(solutions) >= 2
    /\ solutions[Len(solutions)] = pieces

-----------------------------------------------------------------------------
(* Properties of single functions *)

\* The arrangement for which the uniqueness test is said to fail, and the
\* one for which it is said to succeed.
ExampleDuplicate == {<<0, 0>>, <<0, 1>>, <<1, 0>>}
ExampleDistinct == {<<0, 2>>, <<1, 1>>, <<2, 2>>}

\* C5 as stated: hasuniquedistance returns true iff no two different
\* unordered pairs of points have the same squared distance; it returns
\* false for {(0,0),(0,1),(1,0)} and true for {(0,2),(1,1),(2,2)}.
C5_Original ==
    pc = "returned" =>
        /\ ret = PyBool(UniqueDistances(a))
        /\ a = ExampleDuplicate => ret = False
        /\ a = ExampleDistinct => ret = True

\* C5 as amended: hasuniquedistance returns true iff no two different
\* unordered pairs of points have the same squared distance (so true for
\* arrangements of 0 or 1 points); it returns false for
\* {(0,0),(0,1),(1,0)} and also false for {(0,2),(1,1),(2,2)}, whose
\* squared distances are 2, 4, 2.
C5_UniqueIff ==
    pc = "returned" =>
        /\ ret = PyBool(UniqueDistances(a))
        /\ Cardinality(a) <= 1 => ret = True
        /\ a = ExampleDuplicate => ret = False
        /\ a = ExampleDistinct =>
              /\ ret = False
              /\ {PairDistance(pr) : pr \in Pairs(a)} = {2, 4}

C5_Witness ==
    /\ pc = "returned"
    /\ a = ExampleDistinct
    /\ ret = False

\* The transform that undoes (fl, pm): the inverse permutation, with the
\* flip bit of each output axis moved to the axis it came from.
InversePerm(pm) ==
    [j \in 1..Len(pm) |-> (CHOOSE k \in 1..Len(pm) : pm[k] = j - 1) - 1]

BitOf(num, k) == (num \div Pow(2, k)) % 2

InverseFlip(fl, pm) ==
    sum([j \in 1..Len(pm) |-> BitOf(fl, InversePerm(pm)[j]) * Pow(2, j - 1)])

InverseTransform(fl, pm) == [flip |-> InverseFlip(fl, pm), perm |-> InversePerm(pm)]

IdentityPerm(d) == [k \in 1..d |-> k - 1]

\* C7: every transform has an inverse among the enumerated transforms, and
\* applying the transform and then its inverse gives back the arrangement;
\* a pure reflection applied twice gives back the arrangement.
C7_RoundTrip ==
    pc = "returned" =>
        LET inv == InverseTransform(flip, perm)
        IN  /\ inv \in Range(transforms(size))
            /\ rotatearragement(size, inv.flip, inv.perm, ret.val) = a
            /\ perm = IdentityPerm(size.dim) =>
                  rotatearragement(size, flip, perm, ret.val) = a

C7_Witness ==
    /\ pc = "returned"
    /\ Cardinality(a) >= 2
    /\ ret.val # a
    /\ InverseTransform(flip, perm) # [flip |-> flip, perm |-> perm]
    /\ rotatearragement(size, flip, perm, ret.val) # a

\* C10: a transform maps grid points to grid points, keeps the squared
\* distance of every two points and the number of points, and so keeps the
\* answer of hasuniquedistance.
C10_Isometry ==
    pc = "returned" =>
        /\ ret.val = {rotatepoint(size, flip, perm, x) : x \in a}
        /\ ret.val \subseteq GridPoints(size)
        /\ \A x, y \in a :
              distance_squared(rotatepoint(size, flip, perm, x),
                               rotatepoint(size, flip, perm, y))
                  = distance_squared(x, y)
        /\ Cardinality(ret.val) = Cardinality(a)
        /\ hasuniquedistance(ret.val) = hasuniquedistance(a)

C10_Witness ==
    /\ pc = "returned"
    /\ size.dim = 3
    /\ Cardinality(a) = 3
    /\ hasuniquedistance(a)
    /\ hasuniquedistance(ret.val)
    /\ ret.val # a
    /\ flip # 0 /\ perm # IdentityPerm(size.dim)

\* C4 as stated: istransformof returns true iff one of the transforms maps
\* a onto b, and returns false when none does.
C4_Original ==
    pc = "returned" =>
        /\ ret = True <=> SymEquiv(size, a, b)
        /\ ~SymEquiv(size, a, b) => ret = False

\* What the code does instead of C4: the truth value of the result is right,
\* but a mismatch is reported by None, never by False.
C4_Truthiness ==
    pc = "returned" =>
        /\ truthy(ret) <=> SymEquiv(size, a, b)
        /\ ret \in {True, None}

\* C8 as stated: a call that violates the preconditions ends in an error:
\* distance_squared never returns a value for points of different
\* dimension, and solvegrid/numpositions never return a solution list or a
\* count for a non-positive dimension or width or for too many counters.
C8_FailFast ==
    /\ (pc = "returned" /\ Len(p) # Len(q)) => ret.type = "exception"
    /\ Invalid(size, ncounters) => pc \notin {"solved", "done"}

=============================================================================
